---- MODULE Spec2Model ----
(***************************************************************************)
(* Model of tiktok_uploader.py: the Direct Post upload protocol            *)
(* (upload_video_direct: init, transfer, bounded status poll) and the      *)
(* OAuth/PKCE handshake with its one-shot local callback listener          *)
(* (authenticate, CallbackHandler.do_GET).                                 *)
(*                                                                         *)
(* Python dicts are functions whose DOMAIN is the set of keys present;     *)
(* d.get(k, default) is Get(d, k, default).  Python None is the string     *)
(* None.  Formatted messages (f-strings) are sequences of string tokens,   *)
(* so that "the message contains X" is membership of a token.              *)
(* A network call either answers (kind "resp") or raises (kind "raise"):   *)
(* the program has no try/except around requests.post / requests.put, so   *)
(* an exception leaves the function (pc "raised").                         *)
(*                                                                         *)
(* Further parts: refresh_access_token and the token store across calls    *)
(* (StoreSpec), the --post command with the upload history (PostSpec), and *)
(* two invocations in two processes writing the token file (ConcSpec).     *)
(* Strings that stand for random or hashed values are symbolic; their      *)
(* lengths are computed as the encoders compute them.                      *)
(***************************************************************************)
EXTENDS Integers, Sequences, FiniteSets, TLC

VARIABLES
    \* ---- upload_video_direct ----
    upload_pc,        \* "idle" | "init" | "put" | "poll" | "returned" | "raised"
    video_size,       \* video_path.stat().st_size
    init_payload,     \* source_info of the init request body
    init_response,    \* answer to the init POST
    upload_url,       \* init_data['data']['upload_url']
    publish_id,       \* init_data['data']['publish_id']
    upload_response,  \* answer to the PUT
    put_request,      \* the PUT that was sent: target url and Content-Range
    status_response,  \* answer to the latest status fetch
    i,                \* loop variable of `for i in range(10)`: iterations completed
    slept,            \* total of time.sleep() arguments so far
    result,           \* the dict returned by upload_video_direct
    nInit,            \* init POSTs issued
    nPut,             \* PUTs issued
    nFetch,           \* status-fetch POSTs issued
    fetch_ids,        \* publish_id values sent in status-fetch bodies
    \* ---- module globals and files ----
    loaded,           \* the module has been imported (os.getenv calls done)
    TIKTOK_CLIENT_KEY,
    TIKTOK_CLIENT_SECRET,
    code_verifier,    \* the global _code_verifier
    pkce_shape,       \* of the pair generate_pkce made last: string lengths, padding left,
                      \* and the authenticate invocation that made it
    tokens,           \* content of TOKENS_FILE: account -> credential
    \* ---- authenticate ----
    auth_pc,          \* "idle" | "bind" | "await" | "exchange" | "returned" | "raised"
    auth_calls,       \* authenticate invocations started in this process
    account,          \* the argument of the running invocation
    code_challenge,   \* local code_challenge
    auth_url,         \* query parameters of the authorization URL
    listener,         \* "none" | "listening" | "closed": this invocation's server socket
    nBind,            \* OAuthHTTPServer(...) constructions attempted by this invocation
    server_auth_code, \* server.auth_code
    server_error,     \* server.error
    request,          \* the HTTP request the listener handled
    response_code,    \* the status the handler answered with (0: none)
    nHandled,         \* requests handled by this invocation's listener
    opened_url,       \* what webbrowser.open was called with
    exchange_request, \* form data of the token exchange POST
    token_response,   \* answer to the token exchange POST
    nExchange,        \* token exchange POSTs issued by this invocation
    auth_return,      \* the value authenticate returned (read when auth_pc = "returned")
    \* ---- refresh_access_token ----
    refresh_pc,       \* "idle" | "returned" | "raised"
    refresh_calls,    \* refresh_access_token invocations started in this process
    refresh_account,  \* the argument of the latest invocation
    refresh_token,    \* its local refresh_token
    refresh_response, \* the answer to its token POST
    nRefreshPost,     \* token POSTs it issued
    refresh_return,   \* the value it returned (read when refresh_pc = "returned")
    \* ---- main: --post ----
    post_pc,          \* "idle" | "upload" | "returned" | "raised"
    post_mode,        \* "sandbox" (post_sandbox_video) | "production"
    post_video,       \* the file handed to upload_video_direct
    history,          \* history['uploads'] in HISTORY_FILE
    history_before,   \* history['uploads'] when the invocation started
    \* ---- two invocations in two processes, sharing TOKENS_FILE ----
    c_pc,             \* per process: "idle" | "load" | "post" | "save" | "returned" | "raised"
    c_op,             \* per process: "authenticate" | "refresh"
    c_account,        \* per process: the account argument
    c_tokens,         \* per process: the local dict load_tokens returned
    c_data,           \* per process: the JSON of the token answer
    c_return,         \* per process: the value returned
    c_read,           \* per process: how many writes the file had seen at its load_tokens
    c_wrote,          \* per process: which write of the file its save_tokens was (0: none)
    writes,           \* save_tokens calls so far, of either process
    \* ---- two authenticate invocations overlapping in one process ----
    o_pc,             \* per invocation: "idle" | "bind" | "await" | "exchange" | "returned" | "raised"
    o_account,        \* per invocation: the account argument
    o_challenge,      \* per invocation: local code_challenge
    o_url,            \* per invocation: query parameters of its authorization URL
    o_listener,       \* per invocation: "none" | "listening" | "closed"
    o_code,           \* per invocation: server.auth_code
    o_error,          \* per invocation: server.error
    o_opened,         \* per invocation: what webbrowser.open was called with
    o_exchange,       \* per invocation: form data of its token exchange POST
    o_return          \* per invocation: the value returned

uploadVars == <<upload_pc, video_size, init_payload, init_response, upload_url,
                publish_id, upload_response, put_request, status_response, i,
                slept, result, nInit, nPut, nFetch, fetch_ids>>

globalVars == <<loaded, TIKTOK_CLIENT_KEY, TIKTOK_CLIENT_SECRET, code_verifier,
               pkce_shape, tokens>>

authVars == <<auth_pc, auth_calls, account, code_challenge, auth_url, listener, nBind,
              server_auth_code, server_error, request, response_code, nHandled,
              opened_url, exchange_request, token_response, nExchange, auth_return>>

refreshVars == <<refresh_pc, refresh_calls, refresh_account, refresh_token,
                 refresh_response, nRefreshPost, refresh_return>>

postVars == <<post_pc, post_mode, post_video, history, history_before>>

concVars == <<c_pc, c_op, c_account, c_tokens, c_data, c_return, c_read, c_wrote,
              writes>>

overlapVars == <<o_pc, o_account, o_challenge, o_url, o_listener, o_code, o_error,
                 o_opened, o_exchange, o_return>>

\* what upload_video_direct leaves alone, what authenticate leaves alone
\* besides the locals of refresh_access_token, and so on
outsideUploadVars == <<globalVars, authVars, refreshVars, postVars, concVars, overlapVars>>
outsideAuthVars == <<uploadVars, postVars, concVars, overlapVars>>
outsideGlobalVars == <<uploadVars, authVars, refreshVars, postVars, concVars, overlapVars>>
outsidePostVars == <<uploadVars, globalVars, authVars, refreshVars, concVars, overlapVars>>
outsideConcVars == <<uploadVars, authVars, refreshVars, postVars, overlapVars>>
outsideOverlapVars == <<uploadVars, authVars, refreshVars, postVars, concVars>>

vars == <<uploadVars, globalVars, authVars, refreshVars, postVars, concVars, overlapVars>>

-----------------------------------------------------------------------------
(* Python values *)

None == "None"
EmptyDict == [k \in {} |-> None]
Get(d, k, default) == IF k \in DOMAIN d THEN d[k] ELSE default
Contains(text, tok) == \E n \in DOMAIN text : text[n] = tok

\* an HTTP call that raised (requests.exceptions.RequestException)
Raise == [kind |-> "raise"]
\* an HTTP answer: status code, .text ("" | "notjson" | "json") and .json()
Resp(code, text, json) ==
    [kind |-> "resp", status_code |-> code, text |-> text, json |-> json]
NoResponse == [kind |-> "none"]

\* response.json() raises on a body that is not JSON
JsonRaises(resp) == resp.text # "json"

-----------------------------------------------------------------------------
(* The environment: what the provider may answer *)

InitErrorObjs ==
    { [code |-> "ok", message |-> <<"">>],
      [code |-> "invalid_params", message |-> <<"The request parameters are malformed">>],
      [code |-> "invalid_params", message |-> <<"invalid_params", ": bad chunk size">>],
      [code |-> "access_token_invalid"],
      [message |-> <<"no code given">>] }

InitDataObjs ==
    { [upload_url |-> "https://x", publish_id |-> "p1"],
      [upload_url |-> "https://y", publish_id |-> "p2"],
      [upload_url |-> "https://x"],
      [upload_url |-> "", publish_id |-> "p1"],
      [publish_id |-> "p1"],
      EmptyDict }

InitJsons ==
    {EmptyDict}
    \cup {[data |-> d] : d \in InitDataObjs}
    \cup {[error |-> e] : e \in InitErrorObjs}
    \cup {[error |-> e, data |-> d] : e \in InitErrorObjs, d \in InitDataObjs}

InitStatusCodes == {200, 400}

InitResponses ==
    {Raise}
    \cup {Resp(c, "", EmptyDict) : c \in InitStatusCodes}
    \cup {Resp(c, "notjson", EmptyDict) : c \in InitStatusCodes}
    \cup {Resp(c, "json", j) : c \in InitStatusCodes, j \in InitJsons}

PutStatusCodes == {200, 201, 204, 404, 500}
PutBodies == {"", "Internal Server Error"}

PutResponses ==
    {Raise} \cup {Resp(c, b, EmptyDict) : c \in PutStatusCodes, b \in PutBodies}

ProcessingStatuses ==
    {"PROCESSING_UPLOAD", "PROCESSING_DOWNLOAD", "SENDING_TO_USER_INBOX"}

StatusDataObjs ==
    { EmptyDict,
      [status |-> "PUBLISH_COMPLETE"],
      [status |-> "FAILED"],
      [status |-> "FAILED", fail_reason |-> "file_format_check_failed"],
      [status |-> "SOME_NEW_STATUS"] }
    \cup {[status |-> s] : s \in ProcessingStatuses}

StatusJsons == {EmptyDict} \cup {[data |-> d] : d \in StatusDataObjs}

StatusCodes == {200, 500}

StatusResponses ==
    {Raise}
    \cup {Resp(c, "notjson", EmptyDict) : c \in StatusCodes}
    \cup {Resp(200, "json", j) : j \in StatusJsons}
    \cup {Resp(500, "json", [data |-> [status |-> "PUBLISH_COMPLETE"]]),
          Resp(500, "json", [data |-> [status |-> "FAILED"]])}

\* 10 * 1024 * 1024, "Max 10MB per chunk"
ChunkCap == 10 * 1024 * 1024
FileSizes == {0, 1, ChunkCap, ChunkCap + 1}

Min(a, b) == IF a < b THEN a ELSE b

-----------------------------------------------------------------------------
(* upload_video_direct *)

\* for i in range(10)
MaxPolls == 10

\* time.sleep(3) after a processing status, time.sleep(2) otherwise
SleepProcessing == 3
SleepOther == 2

SourceInfo(size) ==
    [source |-> "FILE_UPLOAD",
     video_size |-> size,
     chunk_size |-> Min(size, ChunkCap),
     total_chunk_count |-> 1]

\* 'Content-Range': f'bytes 0-{video_size - 1}/{video_size}'
ContentRange(size) == [first |-> 0, last |-> size - 1, total |-> size]

NoPut == [url |-> None, range |-> ContentRange(0)]

\* The init request raises: requests.post itself, init_response.json() of a
\* non-200 answer with a non-empty, non-JSON text, or init_response.json()
\* of a 200 answer that is not JSON.
InitRaises(resp) ==
    \/ resp.kind = "raise"
    \/ /\ resp.kind = "resp"
       /\ resp.status_code # 200
       /\ resp.text = "notjson"
    \/ /\ resp.kind = "resp"
       /\ resp.status_code = 200
       /\ JsonRaises(resp)

\* Faulty variant of InitHasError: looks for 'code' at the top level of the payload.
InitHasErrorTopLevel(init_data) ==
    /\ "code" \in DOMAIN init_data
    /\ init_data["code"] # "ok"

\* if 'error' in init_data and init_data['error'].get('code') != 'ok'
InitHasError(init_data) ==
    /\ "error" \in DOMAIN init_data
    /\ Get(init_data["error"], "code", None) # "ok"

InitUploadUrl(init_data) == Get(Get(init_data, "data", EmptyDict), "upload_url", None)

\* Faulty variant of InitPublishId: reads the key of the line above.
InitPublishIdFromUrlKey(init_data) ==
    Get(Get(init_data, "data", EmptyDict), "upload_url", None)

InitPublishId(init_data) == Get(Get(init_data, "data", EmptyDict), "publish_id", None)

\* `not upload_url`: None or the empty string
Falsy(s) == s = None \/ s = ""

\* Faulty variant of InitFailure: the `if not upload_url` check is left out.
InitFailureNoUrlCheck(resp) ==
    IF resp.status_code # 200
    THEN [success |-> FALSE,
          error |-> <<"Init failed: ", ToString(resp.status_code)>>,
          details |-> IF resp.text # "" THEN resp.json ELSE EmptyDict]
    ELSE IF "error" \in DOMAIN resp.json /\ Get(resp.json["error"], "code", None) # "ok"
    THEN [success |-> FALSE,
          error |-> Get(resp.json["error"], "message", <<"Unknown error">>),
          details |-> resp.json]
    ELSE EmptyDict

\* The dict the init phase returns, or EmptyDict when the phase succeeded.
InitFailure(resp) ==
    IF resp.status_code # 200
    THEN [success |-> FALSE,
          error |-> <<"Init failed: ", ToString(resp.status_code)>>,
          details |-> IF resp.text # "" THEN resp.json ELSE EmptyDict]
    ELSE IF InitHasError(resp.json)
    THEN [success |-> FALSE,
          error |-> Get(resp.json["error"], "message", <<"Unknown error">>),
          details |-> resp.json]
    ELSE IF Falsy(InitUploadUrl(resp.json))
    THEN [success |-> FALSE,
          error |-> <<"No upload URL received">>,
          details |-> resp.json]
    ELSE EmptyDict

\* Faulty variant of TransferOk: any 2xx code passes.
TransferOkAny2xx(code) == code \in 200..299

\* if upload_response.status_code not in [200, 201]
TransferOk(code) == code \in {200, 201}

TransferFailure(resp) ==
    [success |-> FALSE,
     error |-> <<"Upload failed: ", ToString(resp.status_code)>>,
     details |-> resp.text]

\* requests.post of the status fetch raises, or status_response.json() does
\* (called only for a 200 answer)
StatusRaises(resp) ==
    \/ resp.kind = "raise"
    \/ /\ resp.kind = "resp"
       /\ resp.status_code = 200
       /\ JsonRaises(resp)

PublishStatus(resp) == Get(Get(resp.json, "data", EmptyDict), "status", None)
\* Faulty variant of FailReason: reads the key 'reason'.
FailReasonWrongKey(resp) == Get(Get(resp.json, "data", EmptyDict), "reason", "Unknown")
FailReason(resp) == Get(Get(resp.json, "data", EmptyDict), "fail_reason", "Unknown")

\* Faulty variant of PollClass: the completed status is compared with 'PUBLISHED'.
PollClassWrongLiteral(resp) ==
    IF resp.status_code # 200 THEN "other"
    ELSE IF PublishStatus(resp) = "PUBLISHED" THEN "complete"
    ELSE IF PublishStatus(resp) = "FAILED" THEN "failed"
    ELSE IF PublishStatus(resp) \in ProcessingStatuses THEN "processing"
    ELSE "other"

\* The branch one loop iteration takes for an answer that did not raise.
PollClass(resp) ==
    IF resp.status_code # 200 THEN "other"
    ELSE IF PublishStatus(resp) = "PUBLISH_COMPLETE" THEN "complete"
    ELSE IF PublishStatus(resp) = "FAILED" THEN "failed"
    ELSE IF PublishStatus(resp) \in ProcessingStatuses THEN "processing"
    ELSE "other"

SleepFor(cls) == IF cls = "processing" THEN SleepProcessing ELSE SleepOther

CompleteResult(pid, resp) ==
    [success |-> TRUE, publish_id |-> pid, status |-> PublishStatus(resp)]

FailedResult(pid, resp) ==
    [success |-> FALSE,
     error |-> <<"Publish failed: ", FailReason(resp)>>,
     publish_id |-> pid]

\* the return after the loop
ExhaustedResult(pid) ==
    [success |-> TRUE,
     publish_id |-> pid,
     status |-> "PROCESSING",
     note |-> "Video is being processed by TikTok"]

\* The loop goes on after an iteration that neither returned nor raised.
LoopContinues(done) == done < MaxPolls

UploadInit ==
    /\ upload_pc = "idle"
    /\ video_size = 0
    /\ init_payload = EmptyDict
    /\ init_response = NoResponse
    /\ upload_url = None
    /\ publish_id = None
    /\ upload_response = NoResponse
    /\ put_request = NoPut
    /\ status_response = NoResponse
    /\ i = 0
    /\ slept = 0
    /\ result = EmptyDict
    /\ nInit = 0
    /\ nPut = 0
    /\ nFetch = 0
    /\ fetch_ids = {}

\* video_path.exists() is false: return before any request
UploadFileMissing ==
    /\ upload_pc = "idle"
    /\ UNCHANGED outsideUploadVars
    /\ upload_pc' = "returned"
    /\ result' = [success |-> FALSE, error |-> <<"Video file not found">>]
    /\ UNCHANGED <<video_size, init_payload, init_response, upload_url, publish_id,
                   upload_response, put_request, status_response, i, slept,
                   nInit, nPut, nFetch, fetch_ids>>

\* the file exists: stat it and build init_payload
UploadStart(size) ==
    /\ upload_pc = "idle"
    /\ UNCHANGED outsideUploadVars
    /\ upload_pc' = "init"
    /\ video_size' = size
    /\ init_payload' = SourceInfo(size)
    /\ UNCHANGED <<init_response, upload_url, publish_id, upload_response,
                   put_request, status_response, i, slept, result,
                   nInit, nPut, nFetch, fetch_ids>>

\* Step 1: POST .../post/publish/video/init/ and the three checks after it
InitRequest(resp) ==
    /\ upload_pc = "init"
    /\ UNCHANGED outsideUploadVars
    /\ nInit' = nInit + 1
    /\ init_response' = resp
    /\ IF InitRaises(resp)
       THEN /\ upload_pc' = "raised"
            /\ UNCHANGED <<upload_url, publish_id, result>>
       ELSE IF InitFailure(resp) # EmptyDict
       THEN /\ upload_pc' = "returned"
            /\ result' = InitFailure(resp)
            /\ UNCHANGED <<upload_url, publish_id>>
       ELSE /\ upload_pc' = "put"
            /\ upload_url' = InitUploadUrl(resp.json)
            /\ publish_id' = InitPublishId(resp.json)
            /\ UNCHANGED result
    /\ UNCHANGED <<video_size, init_payload, upload_response, put_request,
                   status_response, i, slept, nPut, nFetch, fetch_ids>>

\* Step 2: PUT the whole file to upload_url
PutRequest(resp) ==
    /\ upload_pc = "put"
    /\ UNCHANGED outsideUploadVars
    /\ nPut' = nPut + 1
    /\ put_request' = [url |-> upload_url, range |-> ContentRange(video_size)]
    /\ upload_response' = resp
    /\ IF resp.kind = "raise"
       THEN /\ upload_pc' = "raised"
            /\ UNCHANGED result
       ELSE IF ~TransferOk(resp.status_code)
       THEN /\ upload_pc' = "returned"
            /\ result' = TransferFailure(resp)
       ELSE /\ upload_pc' = "poll"
            /\ UNCHANGED result
    /\ UNCHANGED <<video_size, init_payload, init_response, upload_url, publish_id,
                   status_response, i, slept, nInit, nFetch, fetch_ids>>

\* Step 3: one iteration of the status loop; the iteration that ends the
\* loop falls through to the return after it.
StatusFetch(resp) ==
    /\ upload_pc = "poll"
    /\ UNCHANGED outsideUploadVars
    /\ nFetch' = nFetch + 1
    /\ fetch_ids' = fetch_ids \cup {publish_id}
    /\ status_response' = resp
    /\ IF StatusRaises(resp)
       THEN /\ upload_pc' = "raised"
            /\ UNCHANGED <<i, slept, result>>
       ELSE IF PollClass(resp) = "complete"
       THEN /\ upload_pc' = "returned"
            /\ result' = CompleteResult(publish_id, resp)
            /\ UNCHANGED <<i, slept>>
       ELSE IF PollClass(resp) = "failed"
       THEN /\ upload_pc' = "returned"
            /\ result' = FailedResult(publish_id, resp)
            /\ UNCHANGED <<i, slept>>
       ELSE /\ slept' = slept + SleepFor(PollClass(resp))
            /\ i' = i + 1
            /\ IF LoopContinues(i + 1)
               THEN /\ upload_pc' = "poll"
                    /\ UNCHANGED result
               ELSE /\ upload_pc' = "returned"
                    /\ result' = ExhaustedResult(publish_id)
    /\ UNCHANGED <<video_size, init_payload, init_response, upload_url, publish_id,
                   upload_response, put_request, nInit, nPut>>

-----------------------------------------------------------------------------
(* Module import: the configuration is read from the environment once *)

ConfigValues == {"", "configured"}

\* TIKTOK_CLIENT_KEY = os.getenv('TIKTOK_CLIENT_KEY', '') and the secret
LoadModule(key, secret) ==
    /\ ~loaded
    /\ loaded' = TRUE
    /\ TIKTOK_CLIENT_KEY' = key
    /\ TIKTOK_CLIENT_SECRET' = secret
    /\ UNCHANGED <<code_verifier, pkce_shape, tokens>>
    /\ UNCHANGED outsideGlobalVars

-----------------------------------------------------------------------------
(* The environment of authenticate *)

Accounts == {"default", "jp"}

\* what secrets.token_urlsafe(64)[:128] may return
Verifiers == {"v1", "v2"}

\* query strings: sequences of <<key, value>> pairs, at most MaxParams long
MaxParams == 2
QueryPairs ==
    { <<"code", "ABC">>, <<"code", "XYZ">>, <<"code", "">>,
      <<"error", "access_denied">>, <<"error", "">>,
      <<"state", "default">> }
Queries == UNION {[1..n -> QueryPairs] : n \in 0..MaxParams}

Paths == {"/callback", "/", "/callback/extra"}

\* a GET for any path, or a request with another method
Requests ==
    [method : {"GET"}, path : Paths, query : Queries]
    \cup [method : {"POST"}, path : {"/callback"}, query : Queries]

\* the requests that decide what authenticate does to the token store: the
\* redirect with a code, the redirect with an error, and a stray request
CallbackRequests ==
    { [method |-> "GET", path |-> "/callback",
       query |-> << <<"code", "ABC">>, <<"state", "default">> >>],
      [method |-> "GET", path |-> "/callback",
       query |-> << <<"error", "access_denied">> >>],
      [method |-> "GET", path |-> "/", query |-> <<>>] }

NoRequest == [method |-> None, path |-> None, query |-> <<>>]

TokenJsons ==
    { [access_token |-> "at1", refresh_token |-> "rt1", expires_in |-> 86400,
       open_id |-> "o1", scope |-> "user.info.basic"],
      [access_token |-> "at2"],
      [error |-> "invalid_grant"],
      EmptyDict }

TokenStatusCodes == {200, 400}

TokenResponses ==
    {Raise}
    \cup {Resp(c, "notjson", EmptyDict) : c \in TokenStatusCodes}
    \cup {Resp(c, "json", j) : c \in TokenStatusCodes, j \in TokenJsons}

\* authenticate invocations modelled in one process run
MaxAuthCalls == 2

\* what the token endpoint may answer to a refresh
RefreshJsons ==
    { [access_token |-> "at3", refresh_token |-> "rt3"],
      [access_token |-> "at4"],
      [error |-> "invalid_grant"] }

RefreshResponses ==
    {Raise}
    \cup {Resp(200, "notjson", EmptyDict), Resp(400, "json", EmptyDict)}
    \cup {Resp(200, "json", j) : j \in RefreshJsons}

\* refresh_access_token invocations modelled in one process run
MaxRefreshCalls == 2

-----------------------------------------------------------------------------
(* generate_pkce *)

\* base64url(sha256(verifier)) without padding: one challenge per verifier
S256(verifier) == "S256(" \o verifier \o ")"

\* secrets.token_urlsafe(64), [:128], and the 32 bytes of a SHA-256 digest
TokenBytes == 64
VerifierSlice == 128
DigestBytes == 32

\* base64 of n bytes: 4 characters per started group of 3 bytes, the last
\* group filled up with '='
B64PaddedLen(n) == 4 * ((n + 2) \div 3)
B64Padding(n) == (3 - (n % 3)) % 3

\* secrets.token_urlsafe(n): urlsafe base64 of n random bytes, rstrip('=')
TokenUrlsafeLen(n) == B64PaddedLen(n) - B64Padding(n)

\* Faulty variant of VerifierLen: 16 random bytes are drawn.
VerifierLenShortToken == Min(TokenUrlsafeLen(16), VerifierSlice)

\* len(secrets.token_urlsafe(64)[:128])
VerifierLen == Min(TokenUrlsafeLen(TokenBytes), VerifierSlice)

\* '=' characters left at the end of the challenge after .rstrip('=')
ChallengePadding == 0

\* len(base64.urlsafe_b64encode(digest).decode('ascii').rstrip('='))
ChallengeLen == B64PaddedLen(DigestBytes) - B64Padding(DigestBytes) + ChallengePadding

NoPkce == [verifier_len |-> 0, challenge_len |-> 0, challenge_padding |-> 0,
           generated_in |-> 0]

\* Faulty variant of PkceVerifier: a verifier already held is kept.
PkceVerifierCached(held, fresh) == IF held = None THEN fresh ELSE held

\* _code_verifier after generate_pkce: the fresh random string
PkceVerifier(held, fresh) == fresh

\* Faulty variant of PkceChallenge: the challenge method is 'plain'.
PkceChallengePlain(verifier) == verifier

\* the code_challenge generate_pkce returns for the verifier it stored
PkceChallenge(verifier) == S256(verifier)

\* lengths of the pair generate_pkce leaves, and the invocation it ran in;
\* they change when the verifier held is replaced by a fresh one
PkceShape(held, shape, call) ==
    IF PkceVerifier(held, "fresh") = "fresh"
    THEN [verifier_len |-> VerifierLen,
          challenge_len |-> ChallengeLen,
          challenge_padding |-> ChallengePadding,
          generated_in |-> call]
    ELSE shape

-----------------------------------------------------------------------------
(* CallbackHandler.do_GET *)

\* urllib.parse.parse_qs: key -> list of its values in order of appearance;
\* pairs with a blank value are dropped (keep_blank_values=False)
NonBlank(query) == SelectSeq(query, LAMBDA p : p[2] # "")
ValuesOf(query, key) ==
    LET sel == SelectSeq(NonBlank(query), LAMBDA p : p[1] = key)
    IN  [n \in DOMAIN sel |-> sel[n][2]]
ParseQs(query) ==
    LET nb == NonBlank(query)
        keys == {nb[n][1] : n \in DOMAIN nb}
    IN  [k \in keys |-> ValuesOf(query, k)]

CallbackPath == "/callback"

\* Faulty variant of DoGet: the path is not compared with '/callback'.
DoGetAnyPath(req, auth_code, error) ==
    LET params == ParseQs(req.query) IN
    IF "code" \in DOMAIN params
    THEN [auth_code |-> params["code"][1], error |-> error, status |-> 200]
    ELSE [auth_code |-> None,
          error |-> Get(params, "error", <<"unknown">>)[1],
          status |-> 400]

\* Faulty variant of DoGet: the error parameter is looked at before the code.
DoGetErrorFirst(req, auth_code, error) ==
    IF req.path = CallbackPath
    THEN LET params == ParseQs(req.query) IN
         IF "error" \in DOMAIN params \/ "code" \notin DOMAIN params
         THEN [auth_code |-> None,
               error |-> Get(params, "error", <<"unknown">>)[1],
               status |-> 400]
         ELSE [auth_code |-> params["code"][1], error |-> error, status |-> 200]
    ELSE [auth_code |-> auth_code, error |-> error, status |-> 404]

\* The server fields after do_GET and the status code it answered with.
DoGet(req, auth_code, error) ==
    IF req.path = CallbackPath
    THEN LET params == ParseQs(req.query) IN
         IF "code" \in DOMAIN params
         THEN [auth_code |-> params["code"][1], error |-> error, status |-> 200]
         ELSE [auth_code |-> None,
               error |-> Get(params, "error", <<"unknown">>)[1],
               status |-> 400]
    ELSE [auth_code |-> auth_code, error |-> error, status |-> 404]

\* BaseHTTPRequestHandler dispatches to do_<METHOD>; CallbackHandler defines
\* do_GET only, any other method is answered 501 without touching the server.
HandleOne(req, auth_code, error) ==
    IF req.method = "GET"
    THEN DoGet(req, auth_code, error)
    ELSE [auth_code |-> auth_code, error |-> error, status |-> 501]

-----------------------------------------------------------------------------
(* authenticate *)

NoUrl == EmptyDict

AuthUrl(key, acct, challenge) ==
    [client_key |-> key,
     response_type |-> "code",
     state |-> acct,
     code_challenge |-> challenge,
     code_challenge_method |-> "S256"]

ExchangeData(key, secret, code, verifier) ==
    [client_key |-> key,
     client_secret |-> secret,
     code |-> code,
     grant_type |-> "authorization_code",
     code_verifier |-> verifier]

\* the credential authenticate stores
Credential(data) ==
    [access_token |-> data["access_token"],
     refresh_token |-> Get(data, "refresh_token", ""),
     expires_in |-> Get(data, "expires_in", 0),
     open_id |-> Get(data, "open_id", ""),
     scope |-> Get(data, "scope", ""),
     authenticated_at |-> "now"]

\* Faulty variant of Store: the credential is filed under 'default'.
StoreUnderDefault(store, acct, cred) ==
    [a \in DOMAIN store \cup {"default"} |-> IF a = "default" THEN cred ELSE store[a]]

\* tokens[account] = credential
Store(store, acct, cred) ==
    [a \in DOMAIN store \cup {acct} |-> IF a = acct THEN cred ELSE store[a]]

\* Faulty variant of ConfigMissing: only the client key is looked at.
ConfigMissingKeyOnly == TIKTOK_CLIENT_KEY = ""

\* if not TIKTOK_CLIENT_KEY or not TIKTOK_CLIENT_SECRET
ConfigMissing == TIKTOK_CLIENT_KEY = "" \/ TIKTOK_CLIENT_SECRET = ""

\* Faulty variant of ListenerAfterRequest: server_close() is not called.
ListenerLeftOpen == "listening"

\* handle_request() serves one request, then server_close() releases the port
ListenerAfterRequest == "closed"

\* Faulty variant of NoCodeCaptured: the check is left out.
NoCodeCheckSkipped(auth_code) == FALSE

\* if not server.auth_code
NoCodeCaptured(auth_code) == Falsy(auth_code)

\* the token exchange raises: requests.post itself, or response.json() of a
\* 200 answer that is not JSON
ExchangeRaises(resp) ==
    \/ resp.kind = "raise"
    \/ /\ resp.kind = "resp"
       /\ resp.status_code = 200
       /\ JsonRaises(resp)

ExchangeOk(resp) ==
    /\ resp.status_code = 200
    /\ "access_token" \in DOMAIN resp.json

GlobalInit ==
    /\ loaded = FALSE
    /\ TIKTOK_CLIENT_KEY = ""
    /\ TIKTOK_CLIENT_SECRET = ""
    /\ code_verifier = None
    /\ pkce_shape = NoPkce
    /\ tokens = EmptyDict

AuthInit ==
    /\ nBind = 0
    /\ auth_pc = "idle"
    /\ auth_calls = 0
    /\ account = None
    /\ code_challenge = None
    /\ auth_url = NoUrl
    /\ listener = "none"
    /\ server_auth_code = None
    /\ server_error = None
    /\ request = NoRequest
    /\ response_code = 0
    /\ nHandled = 0
    /\ opened_url = NoUrl
    /\ exchange_request = EmptyDict
    /\ token_response = NoResponse
    /\ nExchange = 0
    /\ auth_return = FALSE

\* the locals of a fresh invocation
FreshLocals ==
    /\ listener' = "none"
    /\ nBind' = 0
    /\ server_auth_code' = None
    /\ server_error' = None
    /\ request' = NoRequest
    /\ response_code' = 0
    /\ nHandled' = 0
    /\ opened_url' = NoUrl
    /\ exchange_request' = EmptyDict
    /\ token_response' = NoResponse
    /\ nExchange' = 0

RefreshInit ==
    /\ refresh_pc = "idle"
    /\ refresh_calls = 0
    /\ refresh_account = None
    /\ refresh_token = None
    /\ refresh_response = NoResponse
    /\ nRefreshPost = 0
    /\ refresh_return = FALSE

\* the frame of the latest refresh_access_token call is gone when
\* authenticate is called
RefreshFrameGone ==
    /\ refresh_pc' = "idle"
    /\ refresh_account' = None
    /\ refresh_token' = None
    /\ refresh_response' = NoResponse
    /\ nRefreshPost' = 0
    /\ refresh_return' = FALSE
    /\ UNCHANGED refresh_calls

AuthCallable ==
    /\ loaded
    /\ auth_pc \in {"idle", "returned", "raised"}
    /\ auth_calls < MaxAuthCalls

\* authenticate(acct) with the configuration missing: return False at once
AuthConfigMissing(acct) ==
    /\ AuthCallable
    /\ ConfigMissing
    /\ auth_calls' = auth_calls + 1
    /\ account' = acct
    /\ FreshLocals
    /\ code_challenge' = None
    /\ auth_url' = NoUrl
    /\ auth_pc' = "returned"
    /\ auth_return' = FALSE
    /\ UNCHANGED globalVars
    /\ RefreshFrameGone
    /\ UNCHANGED outsideAuthVars

\* authenticate(acct): generate_pkce() and the authorization URL
AuthStart(acct, verifier) ==
    /\ AuthCallable
    /\ ~ConfigMissing
    /\ auth_calls' = auth_calls + 1
    /\ account' = acct
    /\ FreshLocals
    /\ code_verifier' = PkceVerifier(code_verifier, verifier)
    /\ pkce_shape' = PkceShape(code_verifier, pkce_shape, auth_calls + 1)
    /\ code_challenge' = PkceChallenge(code_verifier')
    /\ auth_url' = AuthUrl(TIKTOK_CLIENT_KEY, acct, code_challenge')
    /\ auth_pc' = "bind"
    /\ auth_return' = FALSE
    /\ UNCHANGED <<loaded, TIKTOK_CLIENT_KEY, TIKTOK_CLIENT_SECRET, tokens>>
    /\ RefreshFrameGone
    /\ UNCHANGED outsideAuthVars

\* Faulty variant of AfterBindError: the bind is tried again.
AfterBindErrorRetry == "bind"

\* except OSError: print and return False
AfterBindError == "returned"

\* OAuthHTTPServer(('localhost', 8080), ...) raises OSError: return False
AuthBindFails ==
    /\ auth_pc = "bind"
    /\ nBind' = nBind + 1
    /\ auth_pc' = AfterBindError
    /\ auth_return' = FALSE
    /\ UNCHANGED <<auth_calls, account, code_challenge, auth_url, listener,
                   server_auth_code, server_error, request, response_code,
                   nHandled, opened_url, exchange_request, token_response, nExchange>>
    /\ UNCHANGED globalVars
    /\ UNCHANGED refreshVars
    /\ UNCHANGED outsideAuthVars

\* the listener is bound, its fields reset, and the browser opened
AuthBind ==
    /\ auth_pc = "bind"
    /\ nBind' = nBind + 1
    /\ listener' = "listening"
    /\ server_auth_code' = None
    /\ server_error' = None
    /\ opened_url' = auth_url
    /\ auth_pc' = "await"
    /\ UNCHANGED <<auth_calls, account, code_challenge, auth_url, request,
                   response_code, nHandled, exchange_request, token_response,
                   nExchange, auth_return>>
    /\ UNCHANGED globalVars
    /\ UNCHANGED refreshVars
    /\ UNCHANGED outsideAuthVars

\* server.handle_request(); server.server_close(); if not server.auth_code
AuthHandleRequest(req) ==
    /\ auth_pc = "await"
    /\ listener = "listening"
    /\ LET after == HandleOne(req, server_auth_code, server_error) IN
       /\ request' = req
       /\ nHandled' = nHandled + 1
       /\ response_code' = after.status
       /\ server_auth_code' = after.auth_code
       /\ server_error' = after.error
       /\ listener' = ListenerAfterRequest
       /\ IF NoCodeCaptured(after.auth_code)
          THEN /\ auth_pc' = "returned"
               /\ auth_return' = FALSE
          ELSE /\ auth_pc' = "exchange"
               /\ UNCHANGED auth_return
    /\ UNCHANGED <<auth_calls, account, code_challenge, auth_url, opened_url,
                   exchange_request, token_response, nExchange, nBind>>
    /\ UNCHANGED globalVars
    /\ UNCHANGED refreshVars
    /\ UNCHANGED outsideAuthVars

\* POST .../oauth/token/, the two checks, and the token store update
AuthExchange(resp) ==
    /\ auth_pc = "exchange"
    /\ nExchange' = nExchange + 1
    /\ exchange_request' = ExchangeData(TIKTOK_CLIENT_KEY, TIKTOK_CLIENT_SECRET,
                                        server_auth_code, code_verifier)
    /\ token_response' = resp
    /\ IF ExchangeRaises(resp)
       THEN /\ auth_pc' = "raised"
            /\ UNCHANGED <<auth_return, tokens>>
       ELSE IF ~ExchangeOk(resp)
       THEN /\ auth_pc' = "returned"
            /\ auth_return' = FALSE
            /\ UNCHANGED tokens
       ELSE /\ auth_pc' = "returned"
            /\ auth_return' = TRUE
            /\ tokens' = Store(tokens, account, Credential(resp.json))
    /\ UNCHANGED <<auth_calls, account, code_challenge, auth_url, listener,
                   server_auth_code, server_error, request, response_code,
                   nHandled, opened_url, nBind>>
    /\ UNCHANGED <<loaded, TIKTOK_CLIENT_KEY, TIKTOK_CLIENT_SECRET, code_verifier,
                   pkce_shape>>
    /\ UNCHANGED refreshVars
    /\ UNCHANGED outsideAuthVars

\* the frame of the latest authenticate call is gone when
\* refresh_access_token is called
AuthFrameGone ==
    /\ FreshLocals
    /\ auth_pc' = "idle"
    /\ account' = None
    /\ code_challenge' = None
    /\ auth_url' = NoUrl
    /\ auth_return' = FALSE
    /\ UNCHANGED auth_calls

RefreshCallable ==
    /\ loaded
    /\ auth_pc \in {"idle", "returned", "raised"}
    /\ refresh_calls < MaxRefreshCalls

\* tokens[account].get('refresh_token', '')
StoredRefreshToken(store, acct) == Get(store[acct], "refresh_token", "")

\* if account not in tokens ... if not refresh_token
NothingToRefresh(store, acct) ==
    IF acct \notin DOMAIN store THEN TRUE ELSE Falsy(StoredRefreshToken(store, acct))

\* the refresh raises: requests.post itself, or response.json() of a 200
\* answer that is not JSON
RefreshRaises(resp) ==
    \/ resp.kind = "raise"
    \/ /\ resp.kind = "resp"
       /\ resp.status_code = 200
       /\ JsonRaises(resp)

RefreshOk(resp) ==
    /\ resp.status_code = 200
    /\ "access_token" \in DOMAIN resp.json

\* Faulty variant of NewRefreshToken: the stored refresh token is not the fallback.
NewRefreshTokenBlank(data, old) == Get(data, "refresh_token", "")

\* data.get('refresh_token', refresh_token)
NewRefreshToken(data, old) == Get(data, "refresh_token", old)

\* tokens[account].update({'access_token': ..., 'refresh_token': ..., 'refreshed_at': ...})
Refreshed(cred, data, old) ==
    [k \in DOMAIN cred \cup {"access_token", "refresh_token", "refreshed_at"} |->
        CASE k = "access_token" -> data["access_token"]
          [] k = "refresh_token" -> NewRefreshToken(data, old)
          [] k = "refreshed_at" -> "now"
          [] OTHER -> cred[k]]

\* refresh_access_token(acct) with no credential or no refresh token stored:
\* return False without a request
RefreshNothingStored(acct) ==
    /\ RefreshCallable
    /\ NothingToRefresh(tokens, acct)
    /\ refresh_calls' = refresh_calls + 1
    /\ refresh_account' = acct
    /\ refresh_token' = IF acct \in DOMAIN tokens THEN StoredRefreshToken(tokens, acct)
                                                 ELSE None
    /\ refresh_response' = NoResponse
    /\ nRefreshPost' = 0
    /\ refresh_pc' = "returned"
    /\ refresh_return' = FALSE
    /\ AuthFrameGone
    /\ UNCHANGED globalVars
    /\ UNCHANGED outsideAuthVars

\* refresh_access_token(acct): load_tokens, the token POST, the two checks,
\* the update of the credential and save_tokens
RefreshPost(acct, resp) ==
    /\ RefreshCallable
    /\ ~NothingToRefresh(tokens, acct)
    /\ refresh_calls' = refresh_calls + 1
    /\ refresh_account' = acct
    /\ refresh_token' = StoredRefreshToken(tokens, acct)
    /\ refresh_response' = resp
    /\ nRefreshPost' = 1
    /\ IF RefreshRaises(resp)
       THEN /\ refresh_pc' = "raised"
            /\ refresh_return' = FALSE
            /\ UNCHANGED tokens
       ELSE IF ~RefreshOk(resp)
       THEN /\ refresh_pc' = "returned"
            /\ refresh_return' = FALSE
            /\ UNCHANGED tokens
       ELSE /\ refresh_pc' = "returned"
            /\ refresh_return' = TRUE
            /\ tokens' = Store(tokens, acct,
                               Refreshed(tokens[acct], resp.json,
                                         StoredRefreshToken(tokens, acct)))
    /\ AuthFrameGone
    /\ UNCHANGED <<loaded, TIKTOK_CLIENT_KEY, TIKTOK_CLIENT_SECRET, code_verifier,
                   pkce_shape>>
    /\ UNCHANGED outsideAuthVars

RefreshNext ==
    \/ \E acct \in Accounts : RefreshNothingStored(acct)
    \/ \E acct \in Accounts, resp \in RefreshResponses : RefreshPost(acct, resp)

AuthNext ==
    \/ \E key \in ConfigValues, secret \in ConfigValues : LoadModule(key, secret)
    \/ \E acct \in Accounts : AuthConfigMissing(acct)
    \/ \E acct \in Accounts, verifier \in Verifiers : AuthStart(acct, verifier)
    \/ AuthBindFails
    \/ AuthBind
    \/ \E req \in Requests : AuthHandleRequest(req)
    \/ \E resp \in TokenResponses : AuthExchange(resp)

UploadNext ==
    \/ UploadFileMissing
    \/ \E size \in FileSizes : UploadStart(size)
    \/ \E resp \in InitResponses : InitRequest(resp)
    \/ \E resp \in PutResponses : PutRequest(resp)
    \/ \E resp \in StatusResponses : StatusFetch(resp)

\* what HISTORY_FILE may hold when a post starts: nothing, or an earlier record
HistoryFiles ==
    { <<>>,
      << [account |-> "default", video |-> "earlier.mp4", uploaded_at |-> "then",
          success |-> TRUE, sandbox |-> TRUE] >> }

\* what TOKENS_FILE may hold when a post starts: nothing, a credential
\* without access token, or a credential authenticate stored
TokenFiles ==
    { EmptyDict,
      [default |-> [refresh_token |-> "rt1"]],
      [default |-> Credential([access_token |-> "at1", refresh_token |-> "rt1"])] }

\* what the user info endpoint may answer
UserInfoResponses ==
    { Raise, Resp(200, "notjson", EmptyDict), Resp(401, "json", EmptyDict),
      Resp(200, "json", [data |-> [user |-> [display_name |-> "u"]]]) }

\* get_access_token(account)
AccessToken(store, acct) ==
    IF acct \in DOMAIN store THEN Get(store[acct], "access_token", "") ELSE ""

\* get_user_info raises: requests.get itself, or response.json() of a 200
\* answer that is not JSON
UserInfoRaises(resp) ==
    \/ resp.kind = "raise"
    \/ /\ resp.kind = "resp"
       /\ resp.status_code = 200
       /\ JsonRaises(resp)

\* the record add_to_history appends
HistoryRecord(acct, video, success, is_sandbox) ==
    [account |-> acct, video |-> video, uploaded_at |-> "now",
     success |-> success, sandbox |-> is_sandbox]

\* add_to_history: load_history, append, save_history
AddToHistory(uploads, acct, video, success, is_sandbox) ==
    Append(uploads, HistoryRecord(acct, video, success, is_sandbox))

PostVarsInit ==
    /\ post_pc = "idle"
    /\ post_mode = None
    /\ post_video = None
    /\ history = <<>>
    /\ history_before = <<>>

\* main --post --sandbox: post_sandbox_video up to its call of
\* upload_video_direct.  given: --video was passed; found: the sample video
\* or a file of the videos folder exists.
PostSandboxBegin(given, found, info) ==
    /\ post_pc = "idle"
    /\ post_mode' = "sandbox"
    /\ history_before' = history
    /\ IF Falsy(AccessToken(tokens, "default"))
       THEN /\ post_pc' = "returned"
            /\ UNCHANGED post_video
       ELSE IF UserInfoRaises(info)
       THEN /\ post_pc' = "raised"
            /\ UNCHANGED post_video
       ELSE IF ~given /\ ~found
       THEN /\ post_pc' = "returned"
            /\ UNCHANGED post_video
       ELSE /\ post_pc' = "upload"
            /\ post_video' = IF given THEN "given.mp4" ELSE "found.mp4"
    /\ UNCHANGED history
    /\ UNCHANGED outsidePostVars

\* main --post without --sandbox, up to its call of upload_video_direct
PostProductionBegin(acct, given) ==
    /\ post_pc = "idle"
    /\ post_mode' = "production"
    /\ history_before' = history
    /\ IF ~given
       THEN /\ post_pc' = "returned"
            /\ UNCHANGED post_video
       ELSE IF Falsy(AccessToken(tokens, acct))
       THEN /\ post_pc' = "returned"
            /\ UNCHANGED post_video
       ELSE /\ post_pc' = "upload"
            /\ post_video' = "given.mp4"
    /\ UNCHANGED history
    /\ UNCHANGED outsidePostVars

\* upload_video_direct runs inside the post
PostUpload ==
    /\ post_pc = "upload"
    /\ UploadNext

\* upload_video_direct returned to post_sandbox_video: add_to_history, then
\* the report
PostSandboxEnd ==
    /\ post_pc = "upload"
    /\ post_mode = "sandbox"
    /\ upload_pc = "returned"
    /\ history' = AddToHistory(history, "default", post_video, result["success"], TRUE)
    /\ post_pc' = "returned"
    /\ UNCHANGED <<post_mode, post_video, history_before>>
    /\ UNCHANGED outsidePostVars

\* upload_video_direct returned to main: the report
PostProductionEnd ==
    /\ post_pc = "upload"
    /\ post_mode = "production"
    /\ upload_pc = "returned"
    /\ post_pc' = "returned"
    /\ UNCHANGED <<post_mode, post_video, history, history_before>>
    /\ UNCHANGED outsidePostVars

\* an exception of upload_video_direct leaves the post as well
PostUploadRaised ==
    /\ post_pc = "upload"
    /\ upload_pc = "raised"
    /\ post_pc' = "raised"
    /\ UNCHANGED <<post_mode, post_video, history, history_before>>
    /\ UNCHANGED outsidePostVars

PostNext ==
    \/ \E given \in BOOLEAN, found \in BOOLEAN, info \in UserInfoResponses :
            PostSandboxBegin(given, found, info)
    \/ \E acct \in Accounts, given \in BOOLEAN : PostProductionBegin(acct, given)
    \/ PostUpload
    \/ PostSandboxEnd
    \/ PostProductionEnd
    \/ PostUploadRaised

\* the two processes
Procs == {1, 2}

\* what TOKENS_FILE may hold when the two invocations start: nothing, or a
\* credential for each account
SharedTokenFiles ==
    { EmptyDict,
      [a \in Accounts |-> Credential([access_token |-> "at0", refresh_token |-> "rt0"])] }

ConcVarsInit ==
    /\ c_pc = [p \in Procs |-> "idle"]
    /\ c_op = [p \in Procs |-> None]
    /\ c_account = [p \in Procs |-> None]
    /\ c_tokens = [p \in Procs |-> EmptyDict]
    /\ c_data = [p \in Procs |-> EmptyDict]
    /\ c_return = [p \in Procs |-> FALSE]
    /\ c_read = [p \in Procs |-> 0]
    /\ c_wrote = [p \in Procs |-> 0]
    /\ writes = 0

\* Faulty variant of SaveTokens: entries already in the file are kept.
SaveTokensKeepsFile(file, local) ==
    [a \in DOMAIN file \cup DOMAIN local |-> IF a \in DOMAIN file THEN file[a] ELSE local[a]]

\* save_tokens(tokens): open(TOKENS_FILE, 'w') and json.dump: the file
\* becomes the dict handed over, whatever it held
SaveTokens(file, local) == local

ConcUnchangedGlobals ==
    UNCHANGED <<loaded, TIKTOK_CLIENT_KEY, TIKTOK_CLIENT_SECRET, code_verifier, pkce_shape>>

\* process p runs authenticate(acct) and its token exchange is answered
CAuthExchanged(p, acct, resp) ==
    /\ c_pc[p] = "idle"
    /\ c_op' = [c_op EXCEPT ![p] = "authenticate"]
    /\ c_account' = [c_account EXCEPT ![p] = acct]
    /\ IF ExchangeRaises(resp)
       THEN /\ c_pc' = [c_pc EXCEPT ![p] = "raised"]
            /\ UNCHANGED c_data
       ELSE IF ~ExchangeOk(resp)
       THEN /\ c_pc' = [c_pc EXCEPT ![p] = "returned"]
            /\ UNCHANGED c_data
       ELSE /\ c_pc' = [c_pc EXCEPT ![p] = "load"]
            /\ c_data' = [c_data EXCEPT ![p] = resp.json]
    /\ UNCHANGED <<c_tokens, c_return, c_read, c_wrote, writes, tokens>>
    /\ ConcUnchangedGlobals
    /\ UNCHANGED outsideConcVars

\* authenticate in process p: tokens = load_tokens(); tokens[account] = {...}
CAuthLoad(p) ==
    /\ c_pc[p] = "load"
    /\ c_tokens' = [c_tokens EXCEPT
                        ![p] = Store(tokens, c_account[p], Credential(c_data[p]))]
    /\ c_read' = [c_read EXCEPT ![p] = writes]
    /\ c_pc' = [c_pc EXCEPT ![p] = "save"]
    /\ UNCHANGED <<c_op, c_account, c_data, c_return, c_wrote, writes, tokens>>
    /\ ConcUnchangedGlobals
    /\ UNCHANGED outsideConcVars

\* process p runs refresh_access_token(acct): load_tokens and the two checks
CRefreshLoad(p, acct) ==
    /\ c_pc[p] = "idle"
    /\ c_op' = [c_op EXCEPT ![p] = "refresh"]
    /\ c_account' = [c_account EXCEPT ![p] = acct]
    /\ c_tokens' = [c_tokens EXCEPT ![p] = tokens]
    /\ c_read' = [c_read EXCEPT ![p] = writes]
    /\ c_pc' = [c_pc EXCEPT ![p] = IF NothingToRefresh(tokens, acct) THEN "returned"
                                                                       ELSE "post"]
    /\ UNCHANGED <<c_data, c_return, c_wrote, writes, tokens>>
    /\ ConcUnchangedGlobals
    /\ UNCHANGED outsideConcVars

\* refresh_access_token in process p: the token POST is answered; on success
\* the loaded dict is updated
CRefreshAnswered(p, resp) ==
    /\ c_pc[p] = "post"
    /\ IF RefreshRaises(resp)
       THEN /\ c_pc' = [c_pc EXCEPT ![p] = "raised"]
            /\ UNCHANGED <<c_data, c_tokens>>
       ELSE IF ~RefreshOk(resp)
       THEN /\ c_pc' = [c_pc EXCEPT ![p] = "returned"]
            /\ UNCHANGED <<c_data, c_tokens>>
       ELSE /\ c_pc' = [c_pc EXCEPT ![p] = "save"]
            /\ c_data' = [c_data EXCEPT ![p] = resp.json]
            /\ c_tokens' = [c_tokens EXCEPT
                                ![p] = Store(c_tokens[p], c_account[p],
                                             Refreshed(c_tokens[p][c_account[p]], resp.json,
                                                       StoredRefreshToken(c_tokens[p],
                                                                          c_account[p])))]
    /\ UNCHANGED <<c_op, c_account, c_return, c_read, c_wrote, writes, tokens>>
    /\ ConcUnchangedGlobals
    /\ UNCHANGED outsideConcVars

\* process p: save_tokens(tokens) and return True
CSave(p) ==
    /\ c_pc[p] = "save"
    /\ tokens' = SaveTokens(tokens, c_tokens[p])
    /\ writes' = writes + 1
    /\ c_wrote' = [c_wrote EXCEPT ![p] = writes + 1]
    /\ c_return' = [c_return EXCEPT ![p] = TRUE]
    /\ c_pc' = [c_pc EXCEPT ![p] = "returned"]
    /\ UNCHANGED <<c_op, c_account, c_tokens, c_data, c_read>>
    /\ ConcUnchangedGlobals
    /\ UNCHANGED outsideConcVars

ConcNext ==
    \/ \E p \in Procs, acct \in Accounts, resp \in TokenResponses :
            CAuthExchanged(p, acct, resp)
    \/ \E p \in Procs : CAuthLoad(p)
    \/ \E p \in Procs, acct \in Accounts : CRefreshLoad(p, acct)
    \/ \E p \in Procs, resp \in RefreshResponses : CRefreshAnswered(p, resp)
    \/ \E p \in Procs : CSave(p)

\* the two overlapping invocations (two threads of one process)
Invocations == {1, 2}

OverlapVarsInit ==
    /\ o_pc = [t \in Invocations |-> "idle"]
    /\ o_account = [t \in Invocations |-> None]
    /\ o_challenge = [t \in Invocations |-> None]
    /\ o_url = [t \in Invocations |-> NoUrl]
    /\ o_listener = [t \in Invocations |-> "none"]
    /\ o_code = [t \in Invocations |-> None]
    /\ o_error = [t \in Invocations |-> None]
    /\ o_opened = [t \in Invocations |-> NoUrl]
    /\ o_exchange = [t \in Invocations |-> EmptyDict]
    /\ o_return = [t \in Invocations |-> FALSE]

\* invocation t calls authenticate(acct): the configuration check,
\* generate_pkce() into the global, and the authorization URL
OStart(t, acct, verifier) ==
    /\ loaded
    /\ o_pc[t] = "idle"
    /\ o_account' = [o_account EXCEPT ![t] = acct]
    /\ IF ConfigMissing
       THEN /\ o_pc' = [o_pc EXCEPT ![t] = "returned"]
            /\ UNCHANGED <<code_verifier, pkce_shape, o_challenge, o_url>>
       ELSE /\ o_pc' = [o_pc EXCEPT ![t] = "bind"]
            /\ code_verifier' = PkceVerifier(code_verifier, verifier)
            /\ pkce_shape' = PkceShape(code_verifier, pkce_shape, t)
            /\ o_challenge' = [o_challenge EXCEPT ![t] = PkceChallenge(code_verifier')]
            /\ o_url' = [o_url EXCEPT
                            ![t] = AuthUrl(TIKTOK_CLIENT_KEY, acct,
                                           PkceChallenge(code_verifier'))]
    /\ UNCHANGED <<o_listener, o_code, o_error, o_opened, o_exchange, o_return>>
    /\ UNCHANGED <<loaded, TIKTOK_CLIENT_KEY, TIKTOK_CLIENT_SECRET, tokens>>
    /\ UNCHANGED outsideOverlapVars

\* the port is taken, by the other invocation's listener or by another
\* program: OSError, return False
OBindFails(t) ==
    /\ o_pc[t] = "bind"
    /\ o_pc' = [o_pc EXCEPT ![t] = AfterBindError]
    /\ UNCHANGED <<o_account, o_challenge, o_url, o_listener, o_code, o_error,
                   o_opened, o_exchange, o_return>>
    /\ UNCHANGED globalVars
    /\ UNCHANGED outsideOverlapVars

\* the port is free of the other invocation's listener: the listener is
\* bound, its fields reset, and the browser opened
OBind(t) ==
    /\ o_pc[t] = "bind"
    /\ \A u \in Invocations \ {t} : o_listener[u] # "listening"
    /\ o_listener' = [o_listener EXCEPT ![t] = "listening"]
    /\ o_code' = [o_code EXCEPT ![t] = None]
    /\ o_error' = [o_error EXCEPT ![t] = None]
    /\ o_opened' = [o_opened EXCEPT ![t] = o_url[t]]
    /\ o_pc' = [o_pc EXCEPT ![t] = "await"]
    /\ UNCHANGED <<o_account, o_challenge, o_url, o_exchange, o_return>>
    /\ UNCHANGED globalVars
    /\ UNCHANGED outsideOverlapVars

\* handle_request() of invocation t's listener, server_close(), and the
\* check of the captured code
OHandleRequest(t, req) ==
    /\ o_pc[t] = "await"
    /\ o_listener[t] = "listening"
    /\ LET after == HandleOne(req, o_code[t], o_error[t]) IN
       /\ o_code' = [o_code EXCEPT ![t] = after.auth_code]
       /\ o_error' = [o_error EXCEPT ![t] = after.error]
       /\ o_listener' = [o_listener EXCEPT ![t] = ListenerAfterRequest]
       /\ o_pc' = [o_pc EXCEPT ![t] = IF NoCodeCaptured(after.auth_code)
                                       THEN "returned" ELSE "exchange"]
    /\ UNCHANGED <<o_account, o_challenge, o_url, o_opened, o_exchange, o_return>>
    /\ UNCHANGED globalVars
    /\ UNCHANGED outsideOverlapVars

\* the token exchange of invocation t, with the verifier the global holds
\* now, the two checks, and the token store update
OExchange(t, resp) ==
    /\ o_pc[t] = "exchange"
    /\ o_exchange' = [o_exchange EXCEPT
                        ![t] = ExchangeData(TIKTOK_CLIENT_KEY, TIKTOK_CLIENT_SECRET,
                                            o_code[t], code_verifier)]
    /\ IF ExchangeRaises(resp)
       THEN /\ o_pc' = [o_pc EXCEPT ![t] = "raised"]
            /\ UNCHANGED <<o_return, tokens>>
       ELSE IF ~ExchangeOk(resp)
       THEN /\ o_pc' = [o_pc EXCEPT ![t] = "returned"]
            /\ UNCHANGED <<o_return, tokens>>
       ELSE /\ o_pc' = [o_pc EXCEPT ![t] = "returned"]
            /\ o_return' = [o_return EXCEPT ![t] = TRUE]
            /\ tokens' = Store(tokens, o_account[t], Credential(resp.json))
    /\ UNCHANGED <<o_account, o_challenge, o_url, o_listener, o_code, o_error, o_opened>>
    /\ UNCHANGED <<loaded, TIKTOK_CLIENT_KEY, TIKTOK_CLIENT_SECRET, code_verifier,
                   pkce_shape>>
    /\ UNCHANGED outsideOverlapVars

OverlapNext ==
    \/ \E key \in ConfigValues, secret \in ConfigValues : LoadModule(key, secret)
    \/ \E t \in Invocations, acct \in Accounts, verifier \in Verifiers :
            OStart(t, acct, verifier)
    \/ \E t \in Invocations : OBindFails(t)
    \/ \E t \in Invocations : OBind(t)
    \/ \E t \in Invocations, req \in CallbackRequests : OHandleRequest(t, req)
    \/ \E t \in Invocations, resp \in TokenResponses : OExchange(t, resp)

Init ==
    /\ UploadInit /\ GlobalInit /\ AuthInit /\ RefreshInit /\ PostVarsInit
    /\ ConcVarsInit /\ OverlapVarsInit

\* two invocations start with the token file earlier runs left
ConcInit ==
    /\ UploadInit
    /\ loaded = TRUE
    /\ TIKTOK_CLIENT_KEY = "configured"
    /\ TIKTOK_CLIENT_SECRET = "configured"
    /\ code_verifier = None
    /\ pkce_shape = NoPkce
    /\ tokens \in SharedTokenFiles
    /\ AuthInit
    /\ RefreshInit
    /\ PostVarsInit
    /\ ConcVarsInit
    /\ OverlapVarsInit

\* a post starts with the files earlier runs left
PostInit ==
    /\ UploadInit
    /\ loaded = FALSE
    /\ TIKTOK_CLIENT_KEY = ""
    /\ TIKTOK_CLIENT_SECRET = ""
    /\ code_verifier = None
    /\ pkce_shape = NoPkce
    /\ tokens \in TokenFiles
    /\ AuthInit
    /\ RefreshInit
    /\ post_pc = "idle"
    /\ post_mode = None
    /\ post_video = None
    /\ history \in HistoryFiles
    /\ history_before = history
    /\ ConcVarsInit
    /\ OverlapVarsInit

\* authenticate and refresh_access_token called one after another
StoreNext ==
    \/ \E key \in ConfigValues, secret \in ConfigValues : LoadModule(key, secret)
    \/ \E acct \in Accounts : AuthConfigMissing(acct)
    \/ \E acct \in Accounts, verifier \in Verifiers : AuthStart(acct, verifier)
    \/ AuthBindFails
    \/ AuthBind
    \/ \E req \in CallbackRequests : AuthHandleRequest(req)
    \/ \E resp \in TokenResponses : AuthExchange(resp)
    \/ RefreshNext

UploadSpec == Init /\ [][UploadNext]_vars

AuthSpec == Init /\ [][AuthNext]_vars

StoreSpec == Init /\ [][StoreNext]_vars

PostSpec == PostInit /\ [][PostNext]_vars

ConcSpec == ConcInit /\ [][ConcNext]_vars

OverlapSpec == Init /\ [][OverlapNext]_vars

-----------------------------------------------------------------------------
(* Vocabulary of the properties *)

Ended == upload_pc \in {"returned", "raised"}
Returned == upload_pc = "returned"

\* a status fetch answered 200 with a JSON body carrying this status
Answered200(resp) == resp.kind = "resp" /\ resp.status_code = 200 /\ resp.text = "json"
StatusOf(resp) ==
    IF "data" \in DOMAIN resp.json /\ "status" \in DOMAIN resp.json["data"]
    THEN resp.json["data"]["status"]
    ELSE None
AnsweredStatus(resp, statuses) == Answered200(resp) /\ StatusOf(resp) \in statuses

TerminalStatuses == {"PUBLISH_COMPLETE", "FAILED"}

\* the init request succeeded: HTTP 200, no error code other than 'ok', upload_url present
InitSucceeded ==
    /\ init_response.kind = "resp"
    /\ init_response.status_code = 200
    /\ init_response.text = "json"
    /\ \/ "error" \notin DOMAIN init_response.json
       \/ "code" \notin DOMAIN init_response.json["error"]
       \/ init_response.json["error"]["code"] = "ok"
    /\ "data" \in DOMAIN init_response.json
    /\ "upload_url" \in DOMAIN init_response.json["data"]
    /\ init_response.json["data"]["upload_url"] # ""

PutSucceeded ==
    /\ upload_response.kind = "resp"
    /\ upload_response.status_code \in {200, 201}

SuccessReported == Returned /\ result["success"]
FailureReported == Returned /\ ~result["success"]

-----------------------------------------------------------------------------
(* C1 *)

\* C1: whenever the call has ended in the poll phase and no status fetch was
\* a 200 answer with PUBLISH_COMPLETE or FAILED, exactly 10 status fetches
\* were issued and the call returned success=True, status 'PROCESSING' and
\* the publish_id; the exhausted budget is not a failure.
C1_PollBudgetExhausted ==
    (Ended /\ nFetch > 0 /\ ~AnsweredStatus(status_response, TerminalStatuses))
        => /\ nFetch = 10
           /\ Returned
           /\ result["success"] = TRUE
           /\ result["status"] = "PROCESSING"
           /\ result["publish_id"] = publish_id

-----------------------------------------------------------------------------
(* C2 *)

-----------------------------------------------------------------------------
(* C3 *)

\* the init endpoint answered with a payload-embedded error code other than 'ok'
InitAnsweredErrorCode ==
    /\ init_response.kind = "resp"
    /\ init_response.text = "json"
    /\ "error" \in DOMAIN init_response.json
    /\ "code" \in DOMAIN init_response.json["error"]
    /\ init_response.json["error"]["code"] # "ok"

InitErrorCode == init_response.json["error"]["code"]

\* C3 as stated: after an init answer carrying an error code other than 'ok'
\* the call returns success=False with an error message that contains that
\* error code, and no PUT is attempted.
C3_ErrorMessageContainsCode ==
    InitAnsweredErrorCode
        => /\ FailureReported
           /\ Contains(result["error"], InitErrorCode)
           /\ nPut = 0

\* C3 amended: after an init answer carrying an error code other than 'ok'
\* the call returns success=False and no PUT is attempted; the error text is
\* the provider's error message ('Unknown error' when it has none) for a 200
\* answer and 'Init failed: <status>' otherwise, and the error code is
\* carried in details, which is the init payload.
C3_ErrorCodeInDetails ==
    InitAnsweredErrorCode
        => /\ FailureReported
           /\ nPut = 0
           /\ result["details"] = init_response.json
           /\ result["details"]["error"]["code"] = InitErrorCode
           /\ result["error"] =
                IF init_response.status_code = 200
                THEN IF "message" \in DOMAIN init_response.json["error"]
                     THEN init_response.json["error"]["message"]
                     ELSE <<"Unknown error">>
                ELSE <<"Init failed: ", ToString(init_response.status_code)>>

\* a 200 init answer with error code invalid_params whose message does not name the code
C3_Witness ==
    /\ InitAnsweredErrorCode
    /\ init_response.status_code = 200
    /\ InitErrorCode = "invalid_params"
    /\ Returned
    /\ ~Contains(result["error"], "invalid_params")

-----------------------------------------------------------------------------
(* C4 *)

\* C4: after a successful init, the transfer succeeds (the call goes on to
\* the status poll) exactly when the PUT answers 200 or 201; for every other
\* status code S the call returns success=False, 'Upload failed: S' and the
\* response body as details.
C4_TransferOutcome ==
    (nPut > 0 /\ upload_response.kind = "resp")
        => IF upload_response.status_code \in {200, 201}
           THEN upload_pc = "poll" \/ nFetch > 0
           ELSE /\ Returned
                /\ nFetch = 0
                /\ result = [success |-> FALSE,
                             error |-> <<"Upload failed: ",
                                         ToString(upload_response.status_code)>>,
                             details |-> upload_response.text]

\* a PUT answered with a 2xx code that is neither 200 nor 201
C4_Witness ==
    /\ nPut = 1
    /\ upload_response.kind = "resp"
    /\ upload_response.status_code = 204
    /\ Returned

-----------------------------------------------------------------------------
(* C5 *)

CompleteSeen == nFetch > 0 /\ AnsweredStatus(status_response, {"PUBLISH_COMPLETE"})

\* C5: when the k-th status fetch (1 <= k <= 10) answers 200 with
\* PUBLISH_COMPLETE the call has returned success=True with the publish_id of
\* the init response after exactly k fetches, and once it has returned no
\* further status fetch is issued and the result never changes.
C5_CompleteShortCircuits ==
    /\ [](CompleteSeen
            => /\ Returned
               /\ result["success"] = TRUE
               /\ result["publish_id"] = InitPublishId(init_response.json)
               /\ nFetch = i + 1
               /\ nFetch \in 1..10)
    /\ [][Returned => (nFetch' = nFetch /\ result' = result /\ upload_pc' = upload_pc)]_vars

\* PUBLISH_COMPLETE on the very first poll
C5_Witness == CompleteSeen /\ nFetch = 1 /\ Returned /\ result["publish_id"] = "p1"

-----------------------------------------------------------------------------
(* C6 *)

FailedSeen == nFetch > 0 /\ AnsweredStatus(status_response, {"FAILED"})

\* C6: when a status fetch answers 200 with FAILED the call has returned
\* success=False with the publish_id and an error naming the provider's
\* fail_reason, right after that fetch; no further fetch is issued and the
\* failure is never turned into a success.
C6_FailedShortCircuits ==
    /\ [](FailedSeen
            => /\ Returned
               /\ result["success"] = FALSE
               /\ result["publish_id"] = InitPublishId(init_response.json)
               /\ nFetch = i + 1
               /\ result["error"][1] = "Publish failed: "
               /\ "fail_reason" \in DOMAIN status_response.json["data"]
                    => result["error"][2] = status_response.json["data"]["fail_reason"])
    /\ [][(Returned /\ ~result["success"])
            => (nFetch' = nFetch /\ result' = result /\ upload_pc' = upload_pc)]_vars

\* FAILED with a fail_reason after some processing answers
C6_Witness ==
    /\ FailedSeen
    /\ nFetch > 1
    /\ Returned
    /\ Contains(result["error"], "file_format_check_failed")

-----------------------------------------------------------------------------
(* C7 *)

\* the latest status fetch was neither a 200 answer with a terminal status
\* nor a 200 answer with a processing status
TransientOutcome ==
    /\ nFetch > 0
    /\ ~AnsweredStatus(status_response, TerminalStatuses \cup ProcessingStatuses)

\* C7: after such an outcome the poller goes on with the next iteration (or,
\* after the 10th, returns the non-terminal success); the call neither
\* returns failure nor aborts.
C7_TransientOutcomeContinues ==
    TransientOutcome
        => \/ upload_pc = "poll"
           \/ /\ SuccessReported
              /\ nFetch = 10
              /\ result["status"] = "PROCESSING"

-----------------------------------------------------------------------------
(* C8 *)

AuthEnded == auth_pc \in {"returned", "raised"}

\* C8: in every authenticate invocation the listener handles at most one
\* request; once it has handled one it is closed, whatever the request was,
\* before the token exchange is issued and before authenticate returns, and
\* it never handles another one.
C8_ListenerOneShot ==
    /\ [](/\ nHandled <= 1
          /\ nHandled = 1 => listener = "closed"
          /\ auth_pc = "exchange" => (listener = "closed" /\ nHandled = 1)
          /\ nExchange > 0 => (listener = "closed" /\ nHandled = 1)
          /\ AuthEnded => listener # "listening")
    /\ [][(nHandled = 1 /\ auth_calls' = auth_calls)
            => (nHandled' = 1 /\ listener' = "closed" /\ request' = request)]_vars

\* the one request carried a code: the listener is closed while the exchange is pending
C8_Witness ==
    /\ auth_pc = "exchange"
    /\ nHandled = 1
    /\ listener = "closed"
    /\ nExchange = 0

-----------------------------------------------------------------------------
(* C9 *)

\* C9 as stated: authenticate leaves the waiting state only when the request
\* handled was one to the callback path.
C9_KeepsWaitingForCallbackPath ==
    [][(auth_pc = "await" /\ auth_pc' # "await") => request'.path = "/callback"]_vars

\* a GET for another path was handled
OtherPathHandled ==
    /\ nHandled = 1
    /\ request.method = "GET"
    /\ request.path # "/callback"

\* C9 amended: a request to a path other than /callback is answered with 404
\* and is the one request the listener handles: the listener is closed, no
\* code or error is captured, and authenticate returns False without a token
\* exchange.
C9_OtherPathEndsTheWait ==
    OtherPathHandled
        => /\ response_code = 404
           /\ listener = "closed"
           /\ server_auth_code = None
           /\ server_error = None
           /\ auth_pc = "returned"
           /\ auth_return = FALSE
           /\ nExchange = 0

\* a GET for a longer path that starts with /callback and carries a code
C9_Witness ==
    /\ OtherPathHandled
    /\ request.path = "/callback/extra"
    /\ \E n \in DOMAIN request.query : request.query[n] = <<"code", "ABC">>
    /\ auth_pc = "returned"

-----------------------------------------------------------------------------
(* C10 *)

\* a GET for the callback path was handled
CallbackHandled ==
    /\ nHandled = 1
    /\ request.method = "GET"
    /\ request.path = "/callback"

\* the query carries key with a non-blank value
Carries(query, key) == \E n \in DOMAIN query : query[n][1] = key /\ query[n][2] # ""
\* the first non-blank value the query carries for key
FirstValue(query, key) ==
    LET first == CHOOSE n \in DOMAIN query :
                    /\ query[n][1] = key /\ query[n][2] # ""
                    /\ \A m \in 1..(n - 1) : ~(query[m][1] = key /\ query[m][2] # "")
    IN  query[first][2]

\* C10 as stated: a callback request carrying code=X leaves auth_code=X, one
\* carrying error=E leaves error=E and no code, and never both an
\* authorization code and an error are set.
C10_CodeOrErrorCaptured ==
    CallbackHandled
        => /\ Carries(request.query, "code")
                => server_auth_code = FirstValue(request.query, "code")
           /\ Carries(request.query, "error")
                => /\ server_error = FirstValue(request.query, "error")
                   /\ server_auth_code = None
           /\ ~(server_auth_code # None /\ server_error # None)

\* C10 amended: a callback request carrying code=X leaves auth_code=X and
\* the error unset, also when it carries an error parameter as well; one
\* carrying error=E and no code leaves error=E and no code; one carrying
\* neither leaves error 'unknown' and no code; never both are set.
C10_CodeTakesPrecedence ==
    CallbackHandled
        => /\ Carries(request.query, "code")
                => /\ server_auth_code = FirstValue(request.query, "code")
                   /\ server_error = None
                   /\ response_code = 200
           /\ (Carries(request.query, "error") /\ ~Carries(request.query, "code"))
                => /\ server_error = FirstValue(request.query, "error")
                   /\ server_auth_code = None
                   /\ response_code = 400
           /\ (~Carries(request.query, "error") /\ ~Carries(request.query, "code"))
                => /\ server_error = "unknown"
                   /\ server_auth_code = None
                   /\ response_code = 400
           /\ ~(server_auth_code # None /\ server_error # None)

\* a callback request carrying both an error and a code
C10_Witness ==
    /\ CallbackHandled
    /\ request.query = << <<"error", "access_denied">>, <<"code", "ABC">> >>
    /\ server_auth_code = "ABC"
    /\ server_error = None

-----------------------------------------------------------------------------
(* C11 *)

\* the client key or the client secret is not configured
KeyOrSecretMissing == TIKTOK_CLIENT_KEY = "" \/ TIKTOK_CLIENT_SECRET = ""

\* C11: with the client key or the client secret not configured, an
\* invocation of authenticate has returned False, and no PKCE pair was
\* generated, no listener bound, no browser opened, no request handled, no
\* token exchange issued and the token store not written.
C11_ConfigMissingDoesNothing ==
    /\ [](KeyOrSecretMissing
            => /\ auth_calls > 0 => (auth_pc = "returned" /\ auth_return = FALSE)
               /\ code_verifier = None
               /\ pkce_shape = NoPkce
               /\ code_challenge = None
               /\ auth_url = NoUrl
               /\ nBind = 0
               /\ listener = "none"
               /\ opened_url = NoUrl
               /\ nHandled = 0
               /\ nExchange = 0)
    /\ [][KeyOrSecretMissing => tokens' = tokens]_vars

\* an invocation with the key configured and the secret missing has returned
C11_Witness ==
    /\ loaded
    /\ TIKTOK_CLIENT_KEY # ""
    /\ TIKTOK_CLIENT_SECRET = ""
    /\ auth_calls = 1
    /\ auth_pc = "returned"
    /\ auth_return = FALSE

-----------------------------------------------------------------------------
(* C12 *)

\* this invocation's bind raised OSError
BindFailed == nBind >= 1 /\ listener = "none"

\* C12: the bind is attempted at most once per invocation; an invocation
\* whose bind failed has returned False with the browser not opened, no
\* request handled and no token exchange issued; the browser is opened only
\* with the listener bound; the step in which the bind fails leaves the
\* token store as it was.
C12_BindFailureEndsInvocation ==
    /\ [](/\ nBind <= 1
          /\ BindFailed
                => /\ auth_pc = "returned"
                   /\ auth_return = FALSE
                   /\ opened_url = NoUrl
                   /\ nHandled = 0
                   /\ nExchange = 0
          /\ opened_url # NoUrl => (nBind = 1 /\ listener # "none"))
    /\ [][(auth_pc = "bind" /\ listener' = "none") => tokens' = tokens]_vars

\* a second invocation, with a credential already stored, whose bind failed
C12_Witness ==
    /\ BindFailed
    /\ auth_pc = "returned"
    /\ auth_calls = 2
    /\ tokens # EmptyDict

-----------------------------------------------------------------------------
(* C13 *)

\* C13: the token exchange is issued at most once per invocation, only with
\* an authorization code captured by the handled request, and with that
\* code; with an authorization error captured no exchange is issued; the
\* token store changes only in the step in which authenticate returns True,
\* which follows a 200 answer carrying access_token, so an invocation that
\* returns False or ends in an exception leaves the store as it was.
C13_FailureLeavesStore ==
    /\ [](/\ nExchange <= 1
          /\ nExchange = 1
                => /\ nHandled = 1
                   /\ server_auth_code # None
                   /\ server_error = None
                   /\ exchange_request["code"] = server_auth_code
          /\ server_error # None => nExchange = 0)
    /\ [][tokens' # tokens
            => /\ auth_pc' = "returned"
               /\ auth_return' = TRUE
               /\ token_response'.status_code = 200
               /\ "access_token" \in DOMAIN token_response'.json]_vars
    /\ [][((auth_pc' = "returned" /\ auth_return' = FALSE) \/ auth_pc' = "raised")
            => tokens' = tokens]_vars

\* a second invocation whose exchange was answered 200 without access_token,
\* the credential of the first still stored
C13_Witness ==
    /\ auth_calls = 2
    /\ auth_pc = "returned"
    /\ auth_return = FALSE
    /\ nExchange = 1
    /\ token_response.status_code = 200
    /\ "access_token" \notin DOMAIN token_response.json
    /\ tokens # EmptyDict

-----------------------------------------------------------------------------
(* C14 *)

\* the exchange of this invocation was answered 200 with an access_token
ExchangeAnsweredToken ==
    /\ nExchange = 1
    /\ token_response.kind = "resp"
    /\ token_response.status_code = 200
    /\ token_response.text = "json"
    /\ "access_token" \in DOMAIN token_response.json

\* C14: an invocation that has returned, returned True exactly when the
\* listener captured an authorization code and the exchange was answered
\* 200 with an access_token; the token store then maps the account to the
\* credential made from that answer.
C14_TrueIffCodeAndToken ==
    auth_pc = "returned"
        => /\ auth_return = TRUE <=> (server_auth_code # None /\ ExchangeAnsweredToken)
           /\ auth_return = TRUE
                => /\ account \in DOMAIN tokens
                   /\ tokens[account]["access_token"] = token_response.json["access_token"]
                   /\ tokens[account]["refresh_token"]
                        = Get(token_response.json, "refresh_token", "")

\* a second successful invocation for the same account replaced the
\* credential: the answer carried no refresh_token, and none is stored
C14_Witness ==
    /\ auth_calls = 2
    /\ auth_pc = "returned"
    /\ auth_return = TRUE
    /\ account = "jp"
    /\ DOMAIN tokens = {"jp"}
    /\ "refresh_token" \notin DOMAIN token_response.json
    /\ tokens["jp"]["refresh_token"] = ""

-----------------------------------------------------------------------------
(* C16 *)

\* C16: once generate_pkce has run, the challenge of the invocation is the
\* unpadded base64url SHA-256 of the verifier left in _code_verifier (43
\* characters, no '='), and the verifier is 43 to 128 characters long.
C16_ChallengeOfStoredVerifier ==
    code_verifier # None
        => /\ pkce_shape.verifier_len >= 43
           /\ pkce_shape.verifier_len <= 128
           /\ pkce_shape.challenge_padding = 0
           /\ pkce_shape.challenge_len = 43
           /\ code_challenge = S256(code_verifier)

\* generate_pkce has run in a second invocation
C16_Witness ==
    /\ code_verifier # None
    /\ auth_calls = 2
    /\ auth_pc = "bind"
    /\ pkce_shape.verifier_len = 86

-----------------------------------------------------------------------------
(* C17 *)

\* C17: while an invocation is past generate_pkce, the verifier held is the
\* one this invocation generated; the exchange sends it, and its challenge
\* is the code_challenge of the URL this invocation opened.
C17_OwnVerifierSent ==
    /\ auth_pc \in {"bind", "await", "exchange"}
            => /\ pkce_shape.generated_in = auth_calls
               /\ auth_url.code_challenge = S256(code_verifier)
    /\ nExchange = 1
            => /\ pkce_shape.generated_in = auth_calls
               /\ exchange_request["code_verifier"] = code_verifier
               /\ opened_url = auth_url
               /\ opened_url.code_challenge = S256(exchange_request["code_verifier"])

\* the exchange of a second invocation
C17_Witness ==
    /\ auth_calls = 2
    /\ nExchange = 1
    /\ pkce_shape.generated_in = 2
    /\ exchange_request["code_verifier"] = "v2"

-----------------------------------------------------------------------------
(* C19 *)

\* the data object of the init answer
InitAnswerData ==
    IF init_response.kind = "resp" /\ "data" \in DOMAIN init_response.json
    THEN init_response.json["data"]
    ELSE EmptyDict

\* C19: a call issues at most one init request and at most one PUT; the PUT
\* goes to the upload_url of the init answer; every status fetch and the
\* result of a call that polled carry the publish_id of the init answer.
C19_OneInitOnePutSameIds ==
    /\ nInit <= 1
    /\ nPut <= 1
    /\ nPut = 1
            => /\ nInit = 1
               /\ "upload_url" \in DOMAIN InitAnswerData
               /\ put_request.url = InitAnswerData["upload_url"]
    /\ \A id \in fetch_ids : id = Get(InitAnswerData, "publish_id", None)
    /\ nFetch > 0 => fetch_ids # {}
    /\ (Returned /\ nFetch > 0)
            => /\ "publish_id" \in DOMAIN result
               /\ result["publish_id"] = Get(InitAnswerData, "publish_id", None)

\* a call that polled twice and returned the publish_id of the init answer
C19_Witness ==
    /\ Returned
    /\ nPut = 1
    /\ nFetch = 2
    /\ "publish_id" \in DOMAIN InitAnswerData
    /\ "publish_id" \in DOMAIN result
    /\ result["publish_id"] = InitAnswerData["publish_id"]

-----------------------------------------------------------------------------
(* C15 *)

\* the step is a call of refresh_access_token
RefreshStep == refresh_calls' = refresh_calls + 1

\* the account the call of this step is for
CalleeOfStep == IF RefreshStep THEN refresh_account' ELSE account'

\* C15: in any sequence of authenticate and refresh_access_token calls, no
\* step removes an account from the token store or changes the credential
\* of an account other than the one the call is for; a refresh that does
\* not return True leaves the store as it was; a refresh that returns True
\* replaces access_token by the one answered, keeps the stored
\* refresh_token unless the answer carries one, and keeps every other
\* field of the credential.
C15_StoreKeepsOtherAccounts ==
    [][/\ DOMAIN tokens \subseteq DOMAIN tokens'
       /\ \A b \in DOMAIN tokens' \ DOMAIN tokens : b = CalleeOfStep
       /\ \A b \in DOMAIN tokens : b # CalleeOfStep => tokens'[b] = tokens[b]
       /\ (RefreshStep /\ ~(refresh_pc' = "returned" /\ refresh_return' = TRUE))
            => tokens' = tokens
       /\ (RefreshStep /\ refresh_pc' = "returned" /\ refresh_return' = TRUE)
            => LET A == refresh_account'
                   data == refresh_response'.json
               IN  /\ A \in DOMAIN tokens
                   /\ DOMAIN tokens' = DOMAIN tokens
                   /\ tokens'[A]["access_token"] = data["access_token"]
                   /\ tokens'[A]["refresh_token"] =
                        IF "refresh_token" \in DOMAIN data
                        THEN data["refresh_token"]
                        ELSE tokens[A]["refresh_token"]
                   /\ \A k \in DOMAIN tokens[A] \ {"access_token", "refresh_token",
                                                     "refreshed_at"} :
                        tokens'[A][k] = tokens[A][k]
      ]_vars

\* a refresh answered without refresh_token returned True with the other
\* account's credential in the store, and the old refresh token is kept
C15_Witness ==
    /\ refresh_pc = "returned"
    /\ refresh_return = TRUE
    /\ "refresh_token" \notin DOMAIN refresh_response.json
    /\ DOMAIN tokens = {"default", "jp"}
    /\ tokens[refresh_account]["refresh_token"] = "rt1"
    /\ tokens[refresh_account]["access_token"] = "at4"

-----------------------------------------------------------------------------
(* C18 *)

\* the post ran upload_video_direct and got its result
PostGotResult == post_pc = "returned" /\ upload_pc = "returned"

\* C18: a post, in sandbox or production mode, that ran
\* upload_video_direct has appended exactly one record to the history,
\* whose success flag is that of the result, and left the earlier records
\* as they were.
C18_EveryPostRecorded ==
    PostGotResult
        => /\ Len(history) = Len(history_before) + 1
           /\ history[Len(history)]["success"] = result["success"]
           /\ SubSeq(history, 1, Len(history_before)) = history_before

\* C18 restricted to sandbox mode, where the record is written: a sandbox
\* post that ran upload_video_direct has appended exactly one record with
\* the success flag of the result.
C18_SandboxPostRecorded ==
    (PostGotResult /\ post_mode = "sandbox") => C18_EveryPostRecorded

-----------------------------------------------------------------------------
(* C20 *)

\* process p returned True
Succeeded(p) == c_pc[p] = "returned" /\ c_return[p] = TRUE

\* the token file holds the access token process p obtained for its account
HoldsUpdateOf(p) ==
    /\ c_account[p] \in DOMAIN tokens
    /\ tokens[c_account[p]]["access_token"] = c_data[p]["access_token"]

\* the other process saved after p, from a dict it had loaded before p saved
OverwrittenStale(p) ==
    \E q \in Procs \ {p} :
        /\ c_wrote[q] > c_wrote[p]
        /\ c_read[q] < c_wrote[p]

\* C20: nothing protects the token store from concurrent writers: with the
\* two invocations on different accounts, the file lacks the update of an
\* invocation that returned True exactly when the other invocation saved
\* after it a dict it had loaded before; every save succeeds whatever the
\* file holds by then.
C20_LostUpdateIffStaleSave ==
    \A p \in Procs :
        (Succeeded(p) /\ \A q \in Procs \ {p} : c_account[q] # c_account[p])
            => (HoldsUpdateOf(p) <=> ~OverwrittenStale(p))

\* both invocations, on different accounts, returned True and the file
\* lacks the update of one of them
C20_Witness ==
    /\ \A p \in Procs : Succeeded(p)
    /\ c_account[1] # c_account[2]
    /\ \E p \in Procs : ~HoldsUpdateOf(p)

\* the same with an authenticate and a refresh_access_token
C20_WitnessAuthAndRefresh ==
    /\ C20_Witness
    /\ c_op[1] = "authenticate"
    /\ c_op[2] = "refresh"

-----------------------------------------------------------------------------
(* C21 *)

\* bytes a Content-Range first-last/total covers
BytesCovered(range) == range.last - range.first + 1

\* first byte <= last byte < total
RangeWellFormed(range) == range.first <= range.last /\ range.last < range.total

\* C21: for every file size, the init request describes the one transfer:
\* chunk_size x total_chunk_count equals video_size, and equals the bytes
\* covered by the Content-Range of the PUT, which is well formed.
C21_InitDescribesTransfer ==
    /\ "chunk_size" \in DOMAIN init_payload
            => /\ init_payload["video_size"] = video_size
               /\ init_payload["chunk_size"] * init_payload["total_chunk_count"]
                    = video_size
    /\ nPut = 1
            => /\ RangeWellFormed(put_request.range)
               /\ BytesCovered(put_request.range)
                    = init_payload["chunk_size"] * init_payload["total_chunk_count"]

\* C21 for the sizes from 1 byte to 10 MiB, where the single chunk is the
\* whole file
C21_HoldsUpToChunkCap ==
    (video_size >= 1 /\ video_size <= ChunkCap) => C21_InitDescribesTransfer

\* C21 for the empty file, up to the PUT: the init request is consistent
C21_EmptyFileInitConsistent ==
    (video_size = 0 /\ nPut = 0) => C21_InitDescribesTransfer

-----------------------------------------------------------------------------
(* C22 *)

\* invocation t issued its token exchange
Exchanged(t) == o_exchange[t] # EmptyDict

\* C22: with two authenticate invocations overlapping in one process, every
\* invocation that issued its token exchange sent the verifier whose
\* challenge is the code_challenge of the authorization URL that same
\* invocation opened.
C22_OwnVerifierSentWhenOverlapping ==
    \A t \in Invocations :
        Exchanged(t)
            => S256(o_exchange[t]["code_verifier"]) = o_opened[t].code_challenge

\* C22 for an invocation that issued its exchange before the other one
\* was started: it sent its own verifier
C22_OwnVerifierSentWhenAlone ==
    \A t \in Invocations :
        (Exchanged(t) /\ \A u \in Invocations \ {t} : o_pc[u] = "idle")
            => S256(o_exchange[t]["code_verifier"]) = o_opened[t].code_challenge

====
